---- MODULE Spec2Model ----
(***************************************************************************)
(* Model of src/src/utilities/smtp_client.py: EmailClient (the facade),    *)
(* SMTPClient (the transport client that also composes the mail in its     *)
(* retained MIMEMultipart builder) and the relay it talks to through       *)
(* smtplib.SMTP_SSL.                                                       *)
(*                                                                         *)
(* Python values are modelled as strings: "None", "True", "False" for the  *)
(* return values, the class name for an exception.  A call of send_email   *)
(* is a sequence of steps (pc) so that the order of compose, connect,      *)
(* login, sendmail and the closing of the connection is observable.        *)
(*                                                                         *)
(* Environment assumptions: the caller passes EmailMessage instances (the  *)
(* annotated type); a path either exists and can be read, or does not      *)
(* exist.                                                                  *)
(***************************************************************************)
EXTENDS Integers, Sequences, FiniteSets, TLC

VARIABLES
    constructed,     \* EmailClient() / SMTPClient() has been constructed
    self_cfg,        \* SMTPClient._cfg
    self_message,    \* SMTPClient._message, the retained MIMEMultipart
    fpc,             \* position of the caller in EmailClient.send_email
    pc,              \* position inside SMTPClient.send_email
    email_contents,  \* argument of the current (or last) send_email call
    entry_message,   \* self_message as it was when the call was entered
    conn,            \* the SMTP_SSL connection of the call
    connAttempts,    \* SMTP_SSL(...) constructions in this call
    loginAttempts,   \* smtp_server.login calls in this call
    transmitted,     \* sendmail commands issued in this call
    exc,             \* exception raised inside the try block (or "None")
    relayError,      \* the error the relay answered with in this call
    stdout,          \* the except clause that printed in this call
    result,          \* how SMTPClient.send_email ended
    facadeResult,    \* how EmailClient.send_email ended
    delegationDiscarded, \* the facade dropped the value its delegate returned
    nSends           \* number of send_email calls made so far

vars == <<constructed, self_cfg, self_message, fpc, pc, email_contents,
          entry_message, conn, connAttempts, loginAttempts, transmitted,
          exc, relayError, stdout, result, facadeResult,
          delegationDiscarded, nSends>>

-----------------------------------------------------------------------------
(* Bounds *)

MaxSends == 2

MaxAttachments == 2

-----------------------------------------------------------------------------
(* Inputs *)

EnvSenderValues == {"", "bot@example.com"}

EnvPasswdValues == {"", "app-passwd"}

Recipients == {"a@example.com", "b@example.com"}

Subjects == {"", "Hi"}

PlainBodies == {"", "hello"}

HtmlBodies == {"", "<p>hello</p>"}

Paths == {"report.txt", "missing.txt"}

ExistingFiles == {"report.txt"}

AttachmentLists == UNION {[1..n -> Paths] : n \in 0..MaxAttachments}

EmailMessage ==
    [destination_email_address : Recipients,
     subject : Subjects,
     plain_text_body : PlainBodies,
     html_body : HtmlBodies,
     attachments : AttachmentLists]

NoMessage ==
    [destination_email_address |-> "", subject |-> "", plain_text_body |-> "",
     html_body |-> "", attachments |-> <<>>]

-----------------------------------------------------------------------------
(* Python name resolution and exception classes *)

ModuleGlobals ==
    {"os", "smtplib", "ssl", "Path", "StrEnum", "dataclass", "field",
     "encoders", "Message", "MIMEText", "MIMEBase", "MIMEMultipart",
     "SMTPServerConfig", "EmailMessage", "SMTPEmailException",
     "MIMESemantics", "SMTPConfig", "SMTPClient", "EmailClient"}

Builtins ==
    {"RuntimeError", "FileNotFoundError", "ValueError", "NameError",
     "Exception", "open", "print", "str", "type"}

\* LOAD_GLOBAL: the name itself when it is bound, NameError otherwise.
Lookup(name) ==
    IF name \in ModuleGlobals \cup Builtins THEN name ELSE "NameError"

SMTPResponseClasses ==
    {"SMTPConnectError", "SMTPAuthenticationError", "SMTPSenderRefused",
     "SMTPDataError", "SMTPResponseException"}

\* The classes an exception is an instance of.
Mro(e) ==
    {e, "Exception"}
    \cup (IF e \in SMTPResponseClasses
          THEN {"SMTPResponseException", "SMTPException", "OSError"} ELSE {})
    \cup (IF e = "SMTPException" THEN {"OSError"} ELSE {})
    \cup (IF e = "ConnectionRefusedError" THEN {"OSError"} ELSE {})

ExceptClauses ==
    <<"SMTPConnectError", "SMTPAuthenticationError", "SMTPSenderRefused",
      "SMTPException", "Exception">>

\* The first except clause of send_email that matches the exception.
Handler(e) ==
    LET matching == {i \in 1..Len(ExceptClauses) : ExceptClauses[i] \in Mro(e)}
    IN  ExceptClauses[CHOOSE i \in matching : \A j \in matching : i <= j]

-----------------------------------------------------------------------------
(* The MIME structure *)

Header(name, value) == <<name, value>>

\* MIMEBase.__init__: a part of the given content type, no payload yet.
MIMEBase(maintype, subtype) ==
    [ctype |-> maintype \o "/" \o subtype, payload |-> <<>>, headers |-> <<>>]

MIMEMultipart(subtype) ==
    [headers |-> <<Header("Content-Type", "multipart/" \o subtype),
                   Header("MIME-Version", "1.0")>>,
     parts |-> <<>>]

MIMEText(text, subtype) ==
    [MIMEBase("text", subtype) EXCEPT !.payload = <<"text", text>>]

\* Message.__setitem__ appends a header; it never replaces one.
SetItem(m, name, value) ==
    [m EXCEPT !.headers = Append(@, Header(name, value))]

Attach(m, part) == [m EXCEPT !.parts = Append(@, part)]

\* bool(message) is len(message), the number of headers.
Truthy(m) == Len(m.headers) > 0

Exists(file) == file \in ExistingFiles

-----------------------------------------------------------------------------
(* SMTPClient: composition *)

SMTPConfig(sender, passwd) ==
    [sender_email_address |-> sender, google_smtp_app_passwd |-> passwd,
     smtp_server |-> "smtp.gmail.com", smtp_port |-> "465",
     security_contract |-> "SSL"]

Outcome(raised, m) == [raised |-> raised, message |-> m]

\* _init_MIMEMultipart_email: the three checks, then headers and body parts
\* are added to the retained builder.
init_MIMEMultipart_email(m, cfg, e) ==
    IF e.plain_text_body = "" THEN Outcome(Lookup("RunTimeError"), m)
    ELSE IF e.html_body = "" THEN Outcome(Lookup("RuntTimeError"), m)
    ELSE IF e.subject = "" THEN Outcome(Lookup("RuntTimeError"), m)
    ELSE
      LET m0 == IF ~Truthy(m) THEN MIMEMultipart("alternative") ELSE m
          m1 == SetItem(m0, "Subject", e.subject)
          m2 == SetItem(m1, "From", cfg.sender_email_address)
          m3 == SetItem(m2, "To", e.destination_email_address)
          text_part == MIMEText(e.plain_text_body, "plain")
          html_part == MIMEText(e.html_body, "html")
      IN  Outcome("None", Attach(Attach(m3, text_part), html_part))

\* The part built for one file: payload read, base64 encoded, "Content" header.
AttachmentPart(file) ==
    [MIMEBase("application", "octet-stream") EXCEPT
        !.payload = <<"base64", file>>,
        !.headers = <<Header("Content", "attachment; filename = " \o file)>>]

\* The loop body of _add_attachments with `continue` in place of `raise`.
AttachOne_continue(m, file) ==
    IF ~Exists(file) THEN Outcome("None", m)
    ELSE Outcome("None", Attach(m, AttachmentPart(file)))

\* The loop body of _add_attachments for one file.
AttachOne(m, file) ==
    IF ~Exists(file) THEN Outcome(Lookup("FileNotFoundError"), m)
    ELSE Outcome("None", Attach(m, AttachmentPart(file)))

RECURSIVE add_attachments(_, _)
\* _add_attachments: files are attached in order until one is missing.
add_attachments(m, files) ==
    IF files = <<>> THEN Outcome("None", m)
    ELSE LET r == AttachOne(m, Head(files))
         IN  IF r.raised # "None" THEN r
             ELSE add_attachments(r.message, Tail(files))

-----------------------------------------------------------------------------
(* The relay *)

ConnectOutcomes == {"ok", "SMTPConnectError", "ConnectionRefusedError"}

LoginOutcomes == {"ok", "SMTPAuthenticationError", "SMTPException"}

SendmailOutcomes == {"ok", "SMTPSenderRefused", "SMTPDataError"}

QuitOutcomes == {"ok", "SMTPResponseException"}

-----------------------------------------------------------------------------
(* State *)

NoResult == [kind |-> "none", value |-> "None"]

Return(v) == [kind |-> "return", value |-> v]

Raise(e) == [kind |-> "raise", value |-> e]

Init ==
    /\ constructed = FALSE
    /\ self_cfg = SMTPConfig("", "")
    /\ self_message = MIMEMultipart("alternative")
    /\ fpc = "idle"
    /\ pc = "idle"
    /\ email_contents = NoMessage
    /\ entry_message = MIMEMultipart("alternative")
    /\ conn = "none"
    /\ connAttempts = 0
    /\ loginAttempts = 0
    /\ transmitted = <<>>
    /\ exc = "None"
    /\ relayError = "None"
    /\ stdout = "None"
    /\ result = NoResult
    /\ facadeResult = NoResult
    /\ delegationDiscarded = FALSE
    /\ nSends = 0

-----------------------------------------------------------------------------
(* Operations *)

\* EmailClient() constructs its SMTPClient, which reads the two environment
\* values (a missing one reads as "") and creates the retained builder.
\* Neither class is a dataclass, so no __post_init__ runs.
EmailClient_init ==
    /\ ~constructed
    /\ \E s \in EnvSenderValues, p \in EnvPasswdValues :
          self_cfg' = SMTPConfig(s, p)
    /\ self_message' = MIMEMultipart("alternative")
    /\ constructed' = TRUE
    /\ UNCHANGED <<fpc, pc, email_contents, entry_message, conn, connAttempts,
                   loginAttempts, transmitted, exc, relayError, stdout, result,
                   facadeResult, delegationDiscarded, nSends>>

\* The caller enters EmailClient.send_email, which enters
\* SMTPClient.send_email with the same message.
EmailClient_send_email_call ==
    /\ constructed
    /\ fpc \in {"idle", "returned"}
    /\ nSends < MaxSends
    /\ \E m \in EmailMessage : email_contents' = m
    /\ entry_message' = self_message
    /\ fpc' = "called"
    /\ pc' = "compose"
    /\ conn' = "none"
    /\ connAttempts' = 0
    /\ loginAttempts' = 0
    /\ transmitted' = <<>>
    /\ exc' = "None"
    /\ relayError' = "None"
    /\ stdout' = "None"
    /\ result' = NoResult
    /\ facadeResult' = NoResult
    /\ delegationDiscarded' = FALSE
    /\ nSends' = nSends + 1
    /\ UNCHANGED <<constructed, self_cfg, self_message>>

\* send_email, lines 163-171: an EmailMessage instance is truthy, so the
\* first check passes; then the builder is filled.
send_email_compose ==
    /\ pc = "compose"
    /\ LET r == init_MIMEMultipart_email(self_message, self_cfg, email_contents)
       IN  /\ self_message' = r.message
           /\ IF r.raised # "None"
              THEN pc' = "done" /\ result' = Raise(r.raised)
              ELSE pc' = "attach" /\ UNCHANGED result
    /\ UNCHANGED <<constructed, self_cfg, fpc, email_contents, entry_message,
                   conn, connAttempts, loginAttempts, transmitted, exc,
                   relayError, stdout, facadeResult, delegationDiscarded,
                   nSends>>

\* send_email, lines 174-175.
send_email_attach ==
    /\ pc = "attach"
    /\ LET r == IF email_contents.attachments # <<>>
                THEN add_attachments(self_message, email_contents.attachments)
                ELSE Outcome("None", self_message)
       IN  /\ self_message' = r.message
           /\ IF r.raised # "None"
              THEN pc' = "done" /\ result' = Raise(r.raised)
              ELSE pc' = "connect" /\ UNCHANGED result
    /\ UNCHANGED <<constructed, self_cfg, fpc, email_contents, entry_message,
                   conn, connAttempts, loginAttempts, transmitted, exc,
                   relayError, stdout, facadeResult, delegationDiscarded,
                   nSends>>

\* smtplib.SMTP_SSL(...): the socket is opened and the greeting read.  A
\* constructor that raises leaves no open connection and the with body and
\* __exit__ are skipped.
SMTP_SSL_connect ==
    /\ pc = "connect"
    /\ connAttempts' = connAttempts + 1
    /\ \E o \in ConnectOutcomes :
          IF o = "ok"
          THEN /\ conn' = "open"
               /\ pc' = "login"
               /\ UNCHANGED <<exc, relayError>>
          ELSE /\ conn' = IF o = "SMTPConnectError" THEN "closed" ELSE "none"
               /\ exc' = o
               /\ relayError' = o
               /\ pc' = "finish"
    /\ UNCHANGED <<constructed, self_cfg, self_message, fpc, email_contents,
                   entry_message, loginAttempts, transmitted, stdout, result,
                   facadeResult, delegationDiscarded, nSends>>

\* smtp_server.login with a failure that is swallowed instead of leaving
\* the with block.
SMTP_login_swallow ==
    /\ pc = "login"
    /\ loginAttempts' = loginAttempts + 1
    /\ \E o \in LoginOutcomes :
          IF o = "ok"
          THEN /\ conn' = "authed"
               /\ pc' = "sendmail"
               /\ UNCHANGED <<exc, relayError>>
          ELSE /\ relayError' = o
               /\ pc' = "sendmail"
               /\ UNCHANGED <<conn, exc>>
    /\ UNCHANGED <<constructed, self_cfg, self_message, fpc, email_contents,
                   entry_message, connAttempts, transmitted, stdout, result,
                   facadeResult, delegationDiscarded, nSends>>

\* smtp_server.login(sender, passwd), line 179.
SMTP_login ==
    /\ pc = "login"
    /\ loginAttempts' = loginAttempts + 1
    /\ \E o \in LoginOutcomes :
          IF o = "ok"
          THEN /\ conn' = "authed"
               /\ pc' = "sendmail"
               /\ UNCHANGED <<exc, relayError>>
          ELSE /\ exc' = o
               /\ relayError' = o
               /\ pc' = "exit"
               /\ UNCHANGED conn
    /\ UNCHANGED <<constructed, self_cfg, self_message, fpc, email_contents,
                   entry_message, connAttempts, transmitted, stdout, result,
                   facadeResult, delegationDiscarded, nSends>>

\* The arguments of the sendmail call, lines 180-182: two attribute reads
\* and the names receiver_email and message, which are neither locals nor
\* parameters of send_email.
SendmailArgs ==
    <<self_cfg.sender_email_address, Lookup("receiver_email"),
      Lookup("message")>>

\* smtp_server.sendmail(...), lines 180-182: the arguments are evaluated
\* first; the command goes to the relay only when all of them resolve.
SMTP_sendmail ==
    /\ pc = "sendmail"
    /\ IF "NameError" \in {SendmailArgs[2], SendmailArgs[3]}
       THEN /\ exc' = "NameError"
            /\ pc' = "exit"
            /\ UNCHANGED <<transmitted, relayError>>
       ELSE /\ transmitted' = Append(transmitted, SendmailArgs)
            /\ \E o \in SendmailOutcomes :
                  IF o = "ok"
                  THEN UNCHANGED <<exc, relayError>>
                  ELSE exc' = o /\ relayError' = o
            /\ pc' = "exit"
    /\ UNCHANGED <<constructed, self_cfg, self_message, fpc, email_contents,
                   entry_message, conn, connAttempts, loginAttempts, stdout,
                   result, facadeResult, delegationDiscarded, nSends>>

\* Leaving the with block with the socket left as it is.
SMTP_SSL_exit_noclose ==
    /\ pc = "exit"
    /\ \E q \in QuitOutcomes :
          IF q = "ok"
          THEN UNCHANGED <<exc, relayError>>
          ELSE exc' = q /\ relayError' = q
    /\ pc' = "finish"
    /\ UNCHANGED <<constructed, self_cfg, self_message, fpc, email_contents,
                   entry_message, conn, connAttempts, loginAttempts,
                   transmitted, stdout, result, facadeResult,
                   delegationDiscarded, nSends>>

\* Leaving the with block of line 178: SMTP.__exit__ sends QUIT and closes
\* the socket whether or not an exception is pending; a bad QUIT reply
\* raises SMTPResponseException in place of the pending exception.
SMTP_SSL_exit ==
    /\ pc = "exit"
    /\ \E q \in QuitOutcomes :
          IF q = "ok"
          THEN UNCHANGED <<exc, relayError>>
          ELSE exc' = q /\ relayError' = q
    /\ conn' = "closed"
    /\ pc' = "finish"
    /\ UNCHANGED <<constructed, self_cfg, self_message, fpc, email_contents,
                   entry_message, connAttempts, loginAttempts, transmitted,
                   stdout, result, facadeResult, delegationDiscarded, nSends>>

\* Lines 185-194 and the end of send_email: the matching except clause
\* prints, and the function ends without a return statement.
send_email_finish ==
    /\ pc = "finish"
    /\ stdout' = IF exc # "None" THEN Handler(exc) ELSE "None"
    /\ result' = Return("None")
    /\ pc' = "done"
    /\ UNCHANGED <<constructed, self_cfg, self_message, fpc, email_contents,
                   entry_message, conn, connAttempts, loginAttempts,
                   transmitted, exc, relayError, facadeResult,
                   delegationDiscarded, nSends>>

\* EmailClient.send_email, line 225: the call is an expression statement.
\* An exception of the delegate propagates; a returned value is dropped and
\* the facade ends without a return statement.
EmailClient_send_email_return ==
    /\ fpc = "called"
    /\ pc = "done"
    /\ IF result.kind = "raise"
       THEN facadeResult' = result /\ delegationDiscarded' = FALSE
       ELSE facadeResult' = Return("None") /\ delegationDiscarded' = TRUE
    /\ fpc' = "returned"
    /\ UNCHANGED <<constructed, self_cfg, self_message, pc, email_contents,
                   entry_message, conn, connAttempts, loginAttempts,
                   transmitted, exc, relayError, stdout, result, nSends>>

Next ==
    \/ EmailClient_init
    \/ EmailClient_send_email_call
    \/ send_email_compose
    \/ send_email_attach
    \/ SMTP_SSL_connect
    \/ SMTP_login
    \/ SMTP_sendmail
    \/ SMTP_SSL_exit
    \/ send_email_finish
    \/ EmailClient_send_email_return

Spec == Init /\ [][Next]_vars

-----------------------------------------------------------------------------
(* Vocabulary of the properties *)

WellFormed(e) ==
    /\ e.destination_email_address # ""
    /\ e.subject # ""
    /\ e.plain_text_body # ""
    /\ e.html_body # ""

HasMissingAttachment(e) ==
    \E i \in 1..Len(e.attachments) : ~Exists(e.attachments[i])

HeaderValues(m, name) ==
    LET Named(h) == h[1] = name
        hs == SelectSeq(m.headers, Named)
    IN  [i \in 1..Len(hs) |-> hs[i][2]]

BodyParts(m) ==
    LET IsText(p) == p.ctype \in {"text/plain", "text/html"}
    IN  SelectSeq(m.parts, IsText)

AttachmentParts(m) ==
    LET IsFile(p) == p.ctype = "application/octet-stream"
    IN  SelectSeq(m.parts, IsFile)

\* The mail of the current call is composed: both composition steps are over
\* and neither raised.
Composed ==
    \/ pc \in {"connect", "login", "sendmail", "exit", "finish"}
    \/ pc = "done" /\ result.kind = "return"

ValidationError == "RuntimeError"

AttachmentNotFoundError == "FileNotFoundError"

ConnectOrLoginErrors ==
    (ConnectOutcomes \cup LoginOutcomes) \ {"ok"}

-----------------------------------------------------------------------------
(* Properties *)

\* C1: a well-formed message without attachments, sent while the relay
\* accepts everything it is asked, ends with exactly one transmission from
\* the configured sender to the message's recipient and the value True.
C1_SentOnceAndTrue ==
    (/\ pc = "done"
     /\ WellFormed(email_contents)
     /\ email_contents.attachments = <<>>
     /\ relayError = "None")
    => /\ result = Return("True")
       /\ Len(transmitted) = 1
       /\ transmitted[1][1] = self_cfg.sender_email_address
       /\ transmitted[1][2] = email_contents.destination_email_address

\* C2: what EmailClient.send_email gives its caller is what
\* SMTPClient.send_email gave it for that call, and the value returned by
\* the delegate is not dropped.
C2_FacadePropagates ==
    fpc = "returned" => (facadeResult = result /\ ~delegationDiscarded)

\* C3: when an exception is raised in the transport phase of a send of a
\* well-formed message, the call returns (does not raise) a value that is
\* not None.
C3_TransportFailureReturnsFailed ==
    (/\ pc = "done"
     /\ WellFormed(email_contents)
     /\ ~HasMissingAttachment(email_contents)
     /\ exc # "None")
    => (result.kind = "return" /\ result.value = "False")

\* C4: the mail composed for a send holds the two body parts of this
\* message in the order plain, html, one Subject and one To header with this
\* message's values, and exactly this message's attachments.
C4_ComposedMailIsOnlyThisMessage ==
    Composed =>
       /\ BodyParts(self_message) =
             <<MIMEText(email_contents.plain_text_body, "plain"),
               MIMEText(email_contents.html_body, "html")>>
       /\ HeaderValues(self_message, "Subject") = <<email_contents.subject>>
       /\ HeaderValues(self_message, "To") =
             <<email_contents.destination_email_address>>
       /\ Len(AttachmentParts(self_message)) = Len(email_contents.attachments)
       /\ \A i \in 1..Len(email_contents.attachments) :
             AttachmentParts(self_message)[i] =
                AttachmentPart(email_contents.attachments[i])

\* C5: a send of a message with an empty subject, plain-text body or html
\* body ends by raising the validation error, and no connection was
\* attempted in the call.
C5_EmptyFieldRaisesValidationError ==
    (pc = "done" /\ ~WellFormed(email_contents)) =>
       (result = Raise(ValidationError) /\ connAttempts = 0)

\* C6: during a send of an otherwise well-formed message with a missing
\* attachment file no connection is opened and nothing is transmitted, and
\* the call ends by raising FileNotFoundError, which reaches the caller of
\* the facade.
C6_MissingAttachmentRaisesBeforeConnect ==
    (/\ pc # "idle"
     /\ WellFormed(email_contents)
     /\ HasMissingAttachment(email_contents))
    => /\ connAttempts = 0
       /\ conn = "none"
       /\ transmitted = <<>>
       /\ pc \in {"compose", "attach", "done"}
       /\ pc = "done" => result = Raise(AttachmentNotFoundError)
       /\ fpc = "returned" => facadeResult = Raise(AttachmentNotFoundError)

\* C6 witness: a send whose second attachment is missing has raised to the
\* caller.
C6_Witness ==
    /\ fpc = "returned"
    /\ WellFormed(email_contents)
    /\ email_contents.attachments = <<"report.txt", "missing.txt">>
    /\ facadeResult = Raise(AttachmentNotFoundError)
    /\ connAttempts = 0

\* C7: a client exists only with a non-empty sender address and a non-empty
\* credential, and no connection is attempted with an empty one.
C7_ConstructionRejectsEmptyConfig ==
    constructed =>
       /\ self_cfg.sender_email_address # ""
       /\ self_cfg.google_smtp_app_passwd # ""

\* C8: a connection is open only between its opening and the end of the
\* with block; when send_email has returned or raised, and between calls,
\* no connection is open.
C8_ConnectionClosedBeforeReturn ==
    /\ conn \in {"open", "authed"} => pc \in {"login", "sendmail", "exit"}
    /\ pc \in {"idle", "finish", "done"} => conn \in {"none", "closed"}

\* C8 witness: a call that opened a connection and failed at login has
\* returned with the connection closed.
C8_Witness ==
    /\ pc = "done"
    /\ connAttempts = 1
    /\ exc = "SMTPAuthenticationError"
    /\ conn = "closed"

\* C9: in a call the connection is attempted at most once and only after
\* composition, login only on the open connection, sendmail only after
\* login succeeded on it; after a connect or login failure nothing is
\* transmitted and the call does not connect, log in or transmit again.
C9_StepOrder ==
    /\ connAttempts <= 1
    /\ loginAttempts <= connAttempts
    /\ pc \in {"compose", "attach"} =>
          (connAttempts = 0 /\ transmitted = <<>>)
    /\ connAttempts > 0 =>
          (/\ WellFormed(email_contents)
           /\ Len(self_message.parts) >= Len(entry_message.parts) + 2)
    /\ pc = "login" => (conn = "open" /\ loginAttempts = 0)
    /\ pc = "sendmail" => (conn = "authed" /\ loginAttempts = 1)
    /\ transmitted # <<>> =>
          (loginAttempts = 1 /\ conn \in {"authed", "closed"})
    /\ relayError \in ConnectOrLoginErrors =>
          (/\ transmitted = <<>>
           /\ pc \in {"exit", "finish", "done"})

\* C9 witness: a call whose login was rejected has returned after one
\* connection attempt and no transmission.
C9_Witness ==
    /\ pc = "done"
    /\ relayError = "SMTPAuthenticationError"
    /\ connAttempts = 1
    /\ loginAttempts = 1
    /\ transmitted = <<>>

\* C10: when a send has raised a pre-flight error, the retained builder and
\* the configuration are what they were when the call was entered.
C10_FailedSendLeavesBuilderUnchanged ==
    (pc = "done" /\ result.kind = "raise") => self_message = entry_message

====
